---- MODULE Spec2Model ----
(***************************************************************************)
(* The ingestion gateway of cloudrun/main.py: a Flask application that     *)
(* fetches a registered public API, wraps the decoded body with metadata   *)
(* and writes it as a timestamped, partitioned object to a storage bucket. *)
(*                                                                         *)
(* Text is modelled as a sequence of tokens: a literal piece of an         *)
(* f-string is one token, every formatted digit is one token.              *)
(***************************************************************************)
EXTENDS Integers, Sequences, FiniteSets, TLC

(***************************************************************************)
(* Bounds of the model.                                                    *)
(***************************************************************************)
\* number of /ingest/<name> requests that one behaviour of Spec serves,
\* all of them possibly in flight at once
MaxRequests == 2

Reqs == 1..MaxRequests

(***************************************************************************)
(* Configuration of the process.                                           *)
(***************************************************************************)
\* os.environ["GCS_BUCKET"], a sample value
GCS_BUCKET == "ingest-bucket"

\* the keys of the registry, in the order the dict literal lists them
POSTMAN_APIS_keys ==
    <<"httpbin", "jsonplaceholder", "reqres", "cat-facts", "dog-api">>

POSTMAN_APIS ==
    [n \in {"httpbin", "jsonplaceholder", "reqres", "cat-facts", "dog-api"} |->
        CASE n = "httpbin" ->
               [url |-> "https://httpbin.org/json",
                description |-> "HTTP testing service"]
          [] n = "jsonplaceholder" ->
               [url |-> "https://jsonplaceholder.typicode.com/posts/1",
                description |-> "Fake REST API for testing"]
          [] n = "reqres" ->
               [url |-> "https://reqres.in/api/users?page=1",
                description |-> "Test REST API"]
          [] n = "cat-facts" ->
               [url |-> "https://catfact.ninja/fact",
                description |-> "Cat facts API"]
          [] n = "dog-api" ->
               [url |-> "https://dog.ceo/api/breeds/list/all",
                description |-> "Dog breeds API"]]

\* `api_name in POSTMAN_APIS`
Registered(api_name) == api_name \in DOMAIN POSTMAN_APIS

(***************************************************************************)
(* Inputs of the environment, drawn from small sets.                       *)
(***************************************************************************)
\* the <api_name> path parameters that clients send
RequestedNames == {"httpbin", "dog-api", "unknown-api"}

\* values that datetime.now(timezone.utc) returns, in clock order: three
\* instants of one second (the last two within one millisecond) before a
\* change of year, and the first instant of the new year
Instants ==
    << [year |-> 2024, month |-> 12, day |-> 31, hour |-> 23, minute |-> 59,
        second |-> 59, microsecond |-> 998700],
       [year |-> 2024, month |-> 12, day |-> 31, hour |-> 23, minute |-> 59,
        second |-> 59, microsecond |-> 999400],
       [year |-> 2024, month |-> 12, day |-> 31, hour |-> 23, minute |-> 59,
        second |-> 59, microsecond |-> 999900],
       [year |-> 2025, month |-> 1, day |-> 1, hour |-> 0, minute |-> 0,
        second |-> 0, microsecond |-> 0] >>

\* decoded upstream bodies: the Python type response.json() returns and,
\* for the sized types, len() of the value
DataSamples ==
    { [type |-> "list", len |-> 0],
      [type |-> "list", len |-> 3],
      [type |-> "dict", len |-> 2],
      [type |-> "str",  len |-> 4],
      [type |-> "NoneType", len |-> 0] }

\* how requests.get / raise_for_status / response.json end.  A body that is
\* not JSON raises requests.exceptions.JSONDecodeError (a RequestException)
\* with requests >= 2.27 and a plain ValueError with older releases; the
\* repository pins no version, so both are outcomes.
FetchOutcomes ==
    {"ok", "connection_error", "http_error",
     "invalid_json_request_exception", "invalid_json_value_error"}

\* `except requests.exceptions.RequestException`
IsRequestException(outcome) ==
    outcome \in {"connection_error", "http_error",
                 "invalid_json_request_exception"}

\* how json.dumps and blob.upload_from_string end
WriteOutcomes == {"ok", "serialization_error", "storage_error"}

(***************************************************************************)
(* Formatting.                                                             *)
(***************************************************************************)
DigitChars == <<"0", "1", "2", "3", "4", "5", "6", "7", "8", "9">>

\* format(n, "d"): the decimal digits of n, no padding
RECURSIVE FmtD(_)
FmtD(n) ==
    IF n < 10 THEN <<DigitChars[n + 1]>>
    ELSE FmtD(n \div 10) \o <<DigitChars[(n % 10) + 1]>>

\* mutant of Fmt02d: the width is dropped from the format
Fmt02d_unpadded(n) == FmtD(n)

\* format(n, "02d"): zero-padded to a width of at least two
Fmt02d(n) ==
    LET s == FmtD(n) IN IF Len(s) < 2 THEN <<"0">> \o s ELSE s

\* a strftime field of fixed width w: the w low-order decimal digits of n
RECURSIVE StrfField(_, _)
StrfField(n, w) ==
    IF w = 0 THEN <<>>
    ELSE StrfField(n \div 10, w - 1) \o <<DigitChars[(n % 10) + 1]>>

\* timestamp.strftime("%Y%m%d_%H%M%S_%f")
strftime(t) ==
    StrfField(t.year, 4) \o StrfField(t.month, 2) \o StrfField(t.day, 2)
      \o <<"_">>
      \o StrfField(t.hour, 2) \o StrfField(t.minute, 2) \o StrfField(t.second, 2)
      \o <<"_">>
      \o StrfField(t.microsecond, 6)

\* strftime(...)[:-3]
timestamp_str(t) ==
    LET s == strftime(t) IN SubSeq(s, 1, Len(s) - 3)

\* f"api_name={api_name}/year={timestamp.year}/month={timestamp.month:02d}/day={timestamp.day:02d}"
partition_path(api_name, t) ==
    <<"api_name=", api_name, "/year=">> \o FmtD(t.year)
      \o <<"/month=">> \o Fmt02d(t.month)
      \o <<"/day=">> \o Fmt02d(t.day)

\* mutant of filename: the partition path, and the API name with it, is
\* left out of the object name
filename_flat(api_name, t) ==
    <<"data_">> \o timestamp_str(t) \o <<".json">>

\* f"{partition_path}/data_{timestamp_str}.json"
filename(api_name, t) ==
    partition_path(api_name, t) \o <<"/data_">> \o timestamp_str(t) \o <<".json">>

\* timestamp.isoformat(): the fraction is left out when microsecond is 0
isoformat(t) ==
    StrfField(t.year, 4) \o <<"-">> \o StrfField(t.month, 2) \o <<"-">>
      \o StrfField(t.day, 2) \o <<"T">>
      \o StrfField(t.hour, 2) \o <<":">> \o StrfField(t.minute, 2) \o <<":">>
      \o StrfField(t.second, 2)
      \o (IF t.microsecond # 0 THEN <<".">> \o StrfField(t.microsecond, 6)
          ELSE <<>>)
      \o <<"+00:00">>

\* s.replace(old, new) on a text whose tokens are old or do not contain it
replace(s, old, new) ==
    [k \in DOMAIN s |-> IF s[k] = old THEN new ELSE s[k]]

\* full_data["metadata"]["ingestion_timestamp"]
ingestion_timestamp(t) == replace(isoformat(t), "+00:00", "Z")

\* mutant of records_ingested: len() of every value that has one
records_ingested_sized(data) ==
    IF data.type \in {"list", "dict", "str"} THEN data.len ELSE 1

\* filename and ingestion_timestamp of every registered API at every instant
\* of the clock (index into Instants), tabulated
filenames ==
    [n \in DOMAIN POSTMAN_APIS |->
       [k \in DOMAIN Instants |-> filename(n, Instants[k])]]

ingestion_timestamps ==
    [k \in DOMAIN Instants |-> ingestion_timestamp(Instants[k])]

\* len(data) if isinstance(data, list) else 1
records_ingested(data) ==
    IF data.type = "list" THEN data.len ELSE 1

(***************************************************************************)
(* What a call of ingest_api hands back: a (response, status) tuple, a     *)
(* bare response object, or a raised exception.                            *)
(***************************************************************************)
\* str(e) of the exception the fetch raised
ExcText(outcome, url) ==
    CASE outcome = "http_error" ->
           <<"503 Server Error: Service Unavailable for url: ", url>>
      [] outcome = "connection_error" ->
           <<"HTTPSConnectionPool: Max retries exceeded">>
      [] OTHER ->
           <<"Expecting value: line 1 column 1 (char 0)">>

\* the `api_name not in POSTMAN_APIS` return
not_found(api_name) ==
    [kind |-> "tuple", code |-> 404,
     body |-> [status |-> "error",
               message |-> <<"API '", api_name, "' not found">>,
               available_apis |-> POSTMAN_APIS_keys]]

\* the two except clauses of the first try block
fetch_failed(api_name, outcome) ==
    LET url == POSTMAN_APIS[api_name].url IN
    IF IsRequestException(outcome)
    THEN [kind |-> "tuple", code |-> 500,
          body |-> [status |-> "error",
                    message |-> <<"Failed to fetch data from ", api_name, ": ">>
                                  \o ExcText(outcome, url),
                    api_url |-> url,
                    suggestion |->
                      "Try a different API or check network connectivity"]]
    ELSE [kind |-> "tuple", code |-> 500,
          body |-> [status |-> "error",
                    message |-> <<"Unexpected error: ">> \o ExcText(outcome, url)]]

\* full_data["metadata"]; the "data" member of the document is the decoded
\* body as fetched
metadata(api_name, k) ==
    [ingestion_timestamp |-> ingestion_timestamps[k],
     api_name |-> api_name,
     api_url |-> POSTMAN_APIS[api_name].url,
     api_description |-> POSTMAN_APIS[api_name].description,
     response_status |-> 200,
     request_params |-> <<>>]

\* the second try block: what the call hands back for each way json.dumps
\* and upload_from_string end.  Only TypeError and ValueError are caught.
\* k is the timestamp, as an index into Instants.
write_result(api_name, k, data, outcome) ==
    CASE outcome = "ok" ->
           [kind |-> "response", code |-> 200,
            body |-> [status |-> "success",
                      api_name |-> api_name,
                      file |-> filenames[api_name][k],
                      gcs_path |-> <<"gs://", GCS_BUCKET, "/">>
                                     \o filenames[api_name][k],
                      records_ingested |-> records_ingested(data),
                      ingestion_timestamp |-> ingestion_timestamps[k]]]
      [] outcome = "serialization_error" ->
           [kind |-> "tuple", code |-> 500,
            body |-> [status |-> "error",
                      message |-> <<"JSON serialization failed: ",
                                    "Object is not JSON serializable">>]]
      [] OTHER ->
           [kind |-> "raise", code |-> 0,
            body |-> [exception |-> "GoogleAPICallError",
                      text |-> <<"403 POST: caller does not have storage.objects.create access">>]]

\* what the framework sends for a view's return value: the tuple's status,
\* 200 for a bare response, its own non-JSON 500 page for an exception
HttpResponse(ret) ==
    IF ret.kind = "raise"
    THEN [json |-> FALSE, code |-> 500, body |-> [html |-> "Internal Server Error"]]
    ELSE [json |-> TRUE, code |-> ret.code, body |-> ret.body]

(***************************************************************************)
(* State.                                                                  *)
(***************************************************************************)
VARIABLES
    now,       \* the clock: index into Instants of the latest instant read
    req,       \* per request: where its handler is and what it holds
    store,     \* the bucket: the objects it holds, one per key
    ingested   \* history: every successful ingestion (PUT that returned)

vars == <<now, req, store, ingested>>

\* req[r].exit records the return statement (or raise) a finished
\* /ingest/<name> handler left through and the locals that statement reads:
\* the outcome of the failing call, the timestamp (index into Instants), data
NoData == [type |-> "none", len |-> 0]
NoExit == [via |-> "none", outcome |-> "none", t |-> 0, data |-> NoData]

IdleReq ==
    [pc |-> "idle", route |-> "none", api_name |-> "", i |-> 0,
     timestamp |-> 0, results |-> <<>>, exit |-> NoExit, aux |-> {},
     gets |-> 0, puts |-> 0, fetched |-> "none"]

Init ==
    /\ now = 1
    /\ req = [r \in Reqs |-> IdleReq]
    /\ store = {}
    /\ ingested = {}

\* the instants a reading of the clock can return: the clock never runs back
ClockReadings == now..Len(Instants)

\* the object name and the document of an object the bucket holds
KeyOf(o) == filenames[o.api_name][o.t]
BodyOf(o) == metadata(o.api_name, o.t)

\* blob.upload_from_string: a whole-object PUT, the last writer wins
upload(objects, api_name, t) ==
    LET new == [api_name |-> api_name, t |-> t] IN
    {o \in objects : KeyOf(o) # KeyOf(new)} \cup {new}

\* the value a call of ingest_api(api_name) hands back when it leaves by x
return_value(api_name, x) ==
    CASE x.via = "not_found" -> not_found(api_name)
      [] x.via = "first_try" -> fetch_failed(api_name, x.outcome)
      [] OTHER -> write_result(api_name, x.t, x.data, x.outcome)

(***************************************************************************)
(* /ingest/<api_name>                                                      *)
(***************************************************************************)
\* mutant of IngestNotFound: the registry is consulted after the fetch
IngestNotFound_after_get(r) ==
    /\ req[r].pc = "idle"
    /\ \E name \in RequestedNames :
         /\ ~Registered(name)
         /\ req' = [req EXCEPT ![r] =
                      [@ EXCEPT !.pc = "done", !.route = "/ingest",
                                !.api_name = name, !.gets = @ + 1,
                                !.exit = [NoExit EXCEPT !.via = "not_found"]]]
    /\ UNCHANGED <<now, store, ingested>>

\* an unregistered name: the 404 return, before anything else happens
IngestNotFound(r) ==
    /\ req[r].pc = "idle"
    /\ \E name \in RequestedNames :
         /\ ~Registered(name)
         /\ req' = [req EXCEPT ![r] =
                      [@ EXCEPT !.pc = "done", !.route = "/ingest",
                                !.api_name = name,
                                !.exit = [NoExit EXCEPT !.via = "not_found"]]]
    /\ UNCHANGED <<now, store, ingested>>

\* a registered name: requests.get is issued and the handler blocks on it
IngestBegin(r) ==
    /\ req[r].pc = "idle"
    /\ \E name \in RequestedNames :
         /\ Registered(name)
         /\ req' = [req EXCEPT ![r] =
                      [@ EXCEPT !.pc = "fetching", !.route = "/ingest",
                                !.api_name = name, !.gets = @ + 1]]
    /\ UNCHANGED <<now, store, ingested>>

\* the request as the first try block leaves it when the fetch succeeded:
\* the one reading of the clock, taken after response.json(), is instant k
fetched_ok(q, k) ==
    [q EXCEPT !.pc = "writing", !.fetched = "ok", !.timestamp = k]

\* mutant of fetched_error: a failed fetch is tried once more
fetched_error_retry(q, outcome) ==
    IF q.gets < 2
    THEN [q EXCEPT !.gets = @ + 1]
    ELSE [q EXCEPT !.pc = "done", !.fetched = outcome,
                   !.exit = [NoExit EXCEPT !.via = "first_try",
                                           !.outcome = outcome]]

\* the request as an except clause of the first try block leaves it
fetched_error(q, outcome) ==
    [q EXCEPT !.pc = "done", !.fetched = outcome,
              !.exit = [NoExit EXCEPT !.via = "first_try",
                                      !.outcome = outcome]]

\* requests.get returns or raises; on success the clock is read
IngestFetched(r) ==
    /\ req[r].pc = "fetching"
    /\ req[r].route = "/ingest"
    /\ \E outcome \in FetchOutcomes :
         IF outcome = "ok"
         THEN \E k \in ClockReadings :
                /\ now' = k
                /\ req' = [req EXCEPT ![r] = fetched_ok(@, k)]
         ELSE /\ now' = now
              /\ req' = [req EXCEPT ![r] = fetched_error(@, outcome)]
    /\ UNCHANGED <<store, ingested>>

\* the bucket after the second try block
store_after(q, outcome) ==
    IF outcome = "ok" THEN upload(store, q.api_name, q.timestamp) ELSE store

\* the history after the second try block
ingested_after(r, q, outcome) ==
    IF outcome = "ok"
    THEN ingested \cup {[r |-> r, i |-> q.i, api_name |-> q.api_name,
                         t |-> q.timestamp]}
    ELSE ingested

\* PUTs issued by the second try block: none when json.dumps raised
puts_after(q, outcome) ==
    IF outcome = "serialization_error" THEN q.puts ELSE q.puts + 1

\* how the second try block is left
second_try(q, data, outcome) ==
    IF outcome = "ok"
    THEN [via |-> "second_try", outcome |-> outcome, t |-> q.timestamp,
          data |-> data]
    ELSE [via |-> "second_try", outcome |-> outcome, t |-> 0,
          data |-> NoData]

\* json.dumps and upload_from_string, then the return.  Nothing reads the
\* decoded body before this block, so its value is drawn here.
IngestWritten(r) ==
    /\ req[r].pc = "writing"
    /\ req[r].route = "/ingest"
    /\ \E outcome \in WriteOutcomes, data \in DataSamples :
         LET q == req[r] IN
         /\ store' = store_after(q, outcome)
         /\ ingested' = ingested_after(r, q, outcome)
         /\ req' = [req EXCEPT ![r] =
                      [q EXCEPT !.pc = "done",
                                !.puts = puts_after(q, outcome),
                                !.timestamp = 0,
                                !.exit = second_try(q, data, outcome)]]
    /\ UNCHANGED now

IngestStep(r) ==
    \/ IngestNotFound(r)
    \/ IngestBegin(r)
    \/ IngestFetched(r)
    \/ IngestWritten(r)

(***************************************************************************)
(* /ingest-all                                                             *)
(***************************************************************************)
\* the entry the loop body appends for the call's result.  `result[1]` of a
\* bare response object raises TypeError, which the loop's except clause
\* turns into an error entry; so does an exception the call raised.
all_entry(api_name, ret) ==
    CASE ret.kind = "raise" ->
           [api_name |-> api_name, status |-> "error",
            error |-> ret.body.text]
      [] ret.kind = "response" ->
           [api_name |-> api_name, status |-> "error",
            error |-> <<"'Response' object is not subscriptable">>]
      [] OTHER ->
           [api_name |-> api_name,
            status |-> IF ret.code = 200 THEN "success" ELSE "error",
            result |-> ret.body]

\* mutant of all_next: no per-entry try, an exception of the call ends the loop
all_next_abort(q, x) ==
    LET ret == return_value(q.api_name, x)
        appended == Append(q.results, all_entry(q.api_name, ret))
    IN IF ret.kind = "raise"
       THEN [q EXCEPT !.timestamp = 0, !.pc = "done"]
       ELSE IF q.i < Len(POSTMAN_APIS_keys)
       THEN [q EXCEPT !.results = appended, !.i = @ + 1,
                      !.api_name = POSTMAN_APIS_keys[q.i + 1],
                      !.timestamp = 0, !.gets = @ + 1, !.pc = "fetching"]
       ELSE [q EXCEPT !.results = appended, !.timestamp = 0, !.pc = "done"]

\* the loop after the call for entry q.i left by x: the entry is appended,
\* then the next call issues its GET, or the loop ends and the view returns
all_next(q, x) ==
    LET appended == Append(q.results,
                           all_entry(q.api_name, return_value(q.api_name, x)))
    IN IF q.i < Len(POSTMAN_APIS_keys)
       THEN [q EXCEPT !.results = appended, !.i = @ + 1,
                      !.api_name = POSTMAN_APIS_keys[q.i + 1],
                      !.timestamp = 0, !.gets = @ + 1, !.pc = "fetching"]
       ELSE [q EXCEPT !.results = appended, !.timestamp = 0, !.pc = "done"]

\* the view starts: results = [] and the first call issues its GET
ingest_all_apis(r) ==
    /\ req[r].pc = "idle"
    /\ req' = [req EXCEPT ![r] =
                 [@ EXCEPT !.pc = "fetching", !.route = "/ingest-all",
                           !.i = 1, !.api_name = POSTMAN_APIS_keys[1],
                           !.gets = @ + 1]]
    /\ UNCHANGED <<now, store, ingested>>

\* the current call's requests.get returns or raises
AllFetched(r) ==
    /\ req[r].pc = "fetching"
    /\ req[r].route = "/ingest-all"
    /\ \E outcome \in FetchOutcomes :
         IF outcome = "ok"
         THEN \E k \in ClockReadings :
                /\ now' = k
                /\ req' = [req EXCEPT ![r] = fetched_ok(@, k)]
         ELSE /\ now' = now
              /\ req' = [req EXCEPT ![r] =
                           all_next([@ EXCEPT !.fetched = outcome],
                                    fetched_error(@, outcome).exit)]
    /\ UNCHANGED <<store, ingested>>

\* the current call's second try block, then the loop goes on
AllWritten(r) ==
    /\ req[r].pc = "writing"
    /\ req[r].route = "/ingest-all"
    /\ \E outcome \in WriteOutcomes, data \in DataSamples :
         LET q == req[r] IN
         /\ store' = store_after(q, outcome)
         /\ ingested' = ingested_after(r, q, outcome)
         /\ req' = [req EXCEPT ![r] =
                      all_next([q EXCEPT !.puts = puts_after(q, outcome)],
                               second_try(q, data, outcome))]
    /\ UNCHANGED now

(***************************************************************************)
(* /, /health, /dns-test, /test-connectivity                               *)
(***************************************************************************)
list_apis(r) ==
    /\ req[r].pc = "idle"
    /\ req' = [req EXCEPT ![r] = [@ EXCEPT !.pc = "done", !.route = "/"]]
    /\ UNCHANGED <<now, store, ingested>>

health_check(r) ==
    /\ req[r].pc = "idle"
    /\ \E k \in ClockReadings :
         /\ now' = k
         /\ req' = [req EXCEPT ![r] =
                      [@ EXCEPT !.pc = "done", !.route = "/health",
                                !.exit = [NoExit EXCEPT !.t = k]]]
    /\ UNCHANGED <<store, ingested>>

\* socket.gethostbyname returns or raises
dns_test(r) ==
    /\ req[r].pc = "idle"
    /\ \E outcome \in {"resolved", "gaierror"} :
         req' = [req EXCEPT ![r] =
                   [@ EXCEPT !.pc = "done", !.route = "/dns-test",
                             !.exit = [NoExit EXCEPT !.outcome = outcome]]]
    /\ UNCHANGED <<now, store, ingested>>

\* one GET per registry entry; up is the set of entries whose GET returned
test_connectivity(r) ==
    /\ req[r].pc = "idle"
    /\ \E up \in SUBSET DOMAIN POSTMAN_APIS, k \in ClockReadings :
         /\ now' = k
         /\ req' = [req EXCEPT ![r] =
                      [@ EXCEPT !.pc = "done", !.route = "/test-connectivity",
                                !.aux = up,
                                !.gets = @ + Len(POSTMAN_APIS_keys),
                                !.exit = [NoExit EXCEPT !.t = k]]]
    /\ UNCHANGED <<store, ingested>>

(***************************************************************************)
(* The response a finished request sends.                                  *)
(***************************************************************************)
list_apis_body ==
    [status |-> "success",
     message |-> "Available APIs for ingestion",
     apis |-> POSTMAN_APIS,
     usage |-> "Use /ingest/<api_name> to ingest data from a specific API"]

ingest_all_body(results) ==
    [status |-> "completed",
     message |-> "Bulk ingestion completed",
     results |-> results]

\* mutant of health_check_body: the status member is missing
health_check_body_bare(t) ==
    [timestamp |-> isoformat(t), gcs_bucket |-> GCS_BUCKET]

health_check_body(t) ==
    [status |-> "healthy", timestamp |-> isoformat(t), gcs_bucket |-> GCS_BUCKET]

dns_test_return(outcome) ==
    IF outcome = "resolved"
    THEN [kind |-> "response", code |-> 200,
          body |-> [resolved_ip |-> "203.0.113.7"]]
    ELSE [kind |-> "tuple", code |-> 500,
          body |-> [error |-> "[Errno -2] Name or service not known"]]

test_connectivity_body(up, t) ==
    [connectivity_test |->
       [n \in DOMAIN POSTMAN_APIS |->
          IF n \in up
          THEN [status |-> "success", status_code |-> 200]
          ELSE [status |-> "error", error |-> "Connection refused"]],
     timestamp |-> isoformat(t)]

\* a bare jsonify(...) return
jsonify(body) == [kind |-> "response", code |-> 200, body |-> body]

Response(q) ==
    HttpResponse(
      CASE q.route = "/" -> jsonify(list_apis_body)
        [] q.route = "/ingest" -> return_value(q.api_name, q.exit)
        [] q.route = "/ingest-all" -> jsonify(ingest_all_body(q.results))
        [] q.route = "/health" -> jsonify(health_check_body(Instants[q.exit.t]))
        [] q.route = "/dns-test" -> dns_test_return(q.exit.outcome)
        [] OTHER -> jsonify(test_connectivity_body(q.aux, Instants[q.exit.t])))

(***************************************************************************)
(* Specifications.                                                         *)
(***************************************************************************)
\* the gateway serving MaxRequests concurrent /ingest/<name> requests
Next == \E r \in Reqs : IngestStep(r)

Spec == Init /\ [][Next]_vars

\* the gateway serving one request, of any route
NextSequential ==
    \/ IngestStep(1)
    \/ ingest_all_apis(1)
    \/ AllFetched(1)
    \/ AllWritten(1)
    \/ list_apis(1)
    \/ health_check(1)
    \/ dns_test(1)
    \/ test_connectivity(1)

SpecSequential == Init /\ [][NextSequential]_vars

(***************************************************************************)
(* Properties.                                                             *)
(***************************************************************************)
Contains(text, token) == \E k \in DOMAIN text : text[k] = token

IsPrefix(p, text) == Len(p) <= Len(text) /\ SubSeq(text, 1, Len(p)) = p

\* the tokens of text strictly between the tokens from and to
Between(text, from, to) ==
    LET a == CHOOSE k \in DOMAIN text : text[k] = from
        b == CHOOSE k \in DOMAIN text : text[k] = to
    IN SubSeq(text, a + 1, b - 1)

IsDigit(c) == \E d \in 0..9 : DigitChars[d + 1] = c

\* the number a text of decimal digits denotes
RECURSIVE ParseDigits(_)
ParseDigits(text) ==
    IF text = <<>> THEN 0
    ELSE 10 * ParseDigits(SubSeq(text, 1, Len(text) - 1))
           + (CHOOSE d \in 0..9 : DigitChars[d + 1] = text[Len(text)])

\* the finished /ingest/<name> requests, and those that answered 200
IngestDone(r) == req[r].route = "/ingest" /\ req[r].pc = "done"

IngestSucceeded(r) ==
    /\ IngestDone(r)
    /\ req[r].exit.via = "second_try"
    /\ req[r].exit.outcome = "ok"

\* the instant of an ingestion, cut to the millisecond
Millisecond(k) == [Instants[k] EXCEPT !.microsecond = @ \div 1000]

IngestionKey(g) == filenames[g.api_name][g.t]

\* C1: a request for a name that is not a key of the registry is answered
\* 404 with status "error" and available_apis listing exactly the registry
\* keys, and it has issued no upstream GET and no storage PUT and has written
\* no object.
C1_UnknownNameIs404 ==
    \A r \in Reqs :
      (req[r].route = "/ingest" /\ ~Registered(req[r].api_name)) =>
        /\ req[r].pc = "done"
        /\ LET resp == Response(req[r]) IN
             /\ resp.json
             /\ resp.code = 404
             /\ resp.body.status = "error"
             /\ resp.body.available_apis = POSTMAN_APIS_keys
             /\ {resp.body.available_apis[k] :
                   k \in DOMAIN resp.body.available_apis} = DOMAIN POSTMAN_APIS
        /\ req[r].gets = 0
        /\ req[r].puts = 0
        /\ \A g \in ingested : g.r # r

\* a request for an unknown name was answered while the bucket holds an
\* object another request wrote
C1_Witness ==
    /\ \E r \in Reqs : IngestDone(r) /\ ~Registered(req[r].api_name)
    /\ store # {}

\* C2: a finished /ingest/<name> request for a registered name ended either
\* with HTTP 200 and a gcs_path beginning gs://<bucket>/api_name=<name>/, or
\* with a 5xx whose error body names the attempted upstream URL (in its
\* message or its api_url member).
C2_OkOrErrorNamingUrl ==
    \A r \in Reqs :
      (IngestDone(r) /\ Registered(req[r].api_name)) =>
        LET resp == Response(req[r])
            name == req[r].api_name
            url  == POSTMAN_APIS[name].url
        IN \/ /\ resp.json
              /\ resp.code = 200
              /\ "gcs_path" \in DOMAIN resp.body
              /\ IsPrefix(<<"gs://", GCS_BUCKET, "/", "api_name=", name,
                            "/year=">>, resp.body.gcs_path)
           \/ /\ resp.json
              /\ resp.code >= 500
              /\ resp.code <= 599
              /\ "message" \in DOMAIN resp.body
              /\ \/ Contains(resp.body.message, url)
                 \/ /\ "api_url" \in DOMAIN resp.body
                    /\ resp.body.api_url = url

\* C3: the /ingest-all entry of an API is tagged "success" and carries the
\* success payload when the ingestion of that API succeeded, and is tagged
\* "error" when it failed.
C3_EntryTagsOutcome ==
    \A r \in Reqs :
      req[r].route = "/ingest-all" =>
        \A k \in DOMAIN req[r].results :
          LET e == req[r].results[k] IN
          IF \E g \in ingested : g.r = r /\ g.i = k
          THEN /\ e.status = "success"
               /\ "result" \in DOMAIN e
               /\ e.result.status = "success"
          ELSE e.status = "error"

\* C4: /ingest-all appends one entry per registry entry, in registry order,
\* each tagged "success" or "error", whatever the calls did; every entry's
\* GET is issued; and the view answers 200 with status "completed" and N
\* entries.
C4_OneEntryPerApi ==
    \A r \in Reqs :
      req[r].route = "/ingest-all" =>
        LET q == req[r]
            N == Len(POSTMAN_APIS_keys)
        IN /\ \A k \in DOMAIN q.results :
                /\ q.results[k].api_name = POSTMAN_APIS_keys[k]
                /\ q.results[k].status \in {"success", "error"}
           /\ q.gets = q.i
           /\ q.pc # "done" => Len(q.results) = q.i - 1
           /\ q.pc = "done" =>
                LET resp == Response(q) IN
                /\ q.i = N
                /\ resp.json
                /\ resp.code = 200
                /\ resp.body.status = "completed"
                /\ Len(resp.body.results) = N

\* /ingest-all finished after a call raised, a call returned an error tuple
\* and a call succeeded
C4_Witness ==
    \E r \in Reqs :
      /\ req[r].route = "/ingest-all"
      /\ req[r].pc = "done"
      /\ \E g \in ingested : g.r = r /\ g.i = Len(POSTMAN_APIS_keys)
      /\ \E k \in DOMAIN req[r].results :
           /\ "error" \in DOMAIN req[r].results[k]
           /\ Contains(req[r].results[k].error, "403 POST: caller does not have storage.objects.create access")
      /\ \E k \in DOMAIN req[r].results : "result" \in DOMAIN req[r].results[k]

\* C5: every failure of a /ingest/<name> request for a registered name is
\* answered from inside the handler: a JSON body with status "error" and a
\* message, HTTP 500.
C5_EveryFailureIsJson500 ==
    \A r \in Reqs :
      (IngestDone(r) /\ Registered(req[r].api_name) /\ ~IngestSucceeded(r)) =>
        LET ret == return_value(req[r].api_name, req[r].exit)
            resp == Response(req[r])
        IN /\ ret.kind # "raise"
           /\ resp.json
           /\ resp.code = 500
           /\ resp.body.status = "error"
           /\ "message" \in DOMAIN resp.body

\* C6: two distinct successful ingestions never have the same object key,
\* and the bucket holds one object per ingestion.
C6_KeysNeverShared ==
    /\ \A a, b \in ingested : a # b => IngestionKey(a) # IngestionKey(b)
    /\ Cardinality(store) = Cardinality(ingested)

\* C6 as amended: two successful ingestions have the same object key exactly
\* when they are of the same API and their instants lie in the same
\* millisecond; the bucket holds exactly one object per key in use.
C6_KeySharedIffSameMillisecond ==
    /\ \A a, b \in ingested :
         (IngestionKey(a) = IngestionKey(b)) <=>
           (a.api_name = b.api_name /\ Millisecond(a.t) = Millisecond(b.t))
    /\ {KeyOf(o) : o \in store} = {IngestionKey(g) : g \in ingested}
    /\ \A o, p \in store : KeyOf(o) = KeyOf(p) => o = p

\* two ingestions of one API at different instants of one millisecond have
\* left one object, while another pair of ingestions has two keys
C6_Witness ==
    \E a, b \in ingested :
      /\ a.r # b.r
      /\ a.api_name = b.api_name
      /\ a.t # b.t
      /\ IngestionKey(a) = IngestionKey(b)
      /\ Cardinality(store) = 1

\* C7: the response of every finished request, of every route, is a JSON
\* body with a top-level status member.
C7_EveryResponseHasStatus ==
    \A r \in Reqs :
      req[r].pc = "done" =>
        LET resp == Response(req[r]) IN
        resp.json /\ "status" \in DOMAIN resp.body

\* C7 as amended: every response of /, /health and /ingest-all is a JSON
\* body with a top-level status; so is every response of /ingest/<name>
\* except when the storage write raises, where no JSON body is sent; the
\* bodies of /dns-test and /test-connectivity are JSON without a top-level
\* status.
C7_StatusByRoute ==
    \A r \in Reqs :
      req[r].pc = "done" =>
        LET q == req[r]
            resp == Response(q)
            storage_failed == /\ q.exit.via = "second_try"
                              /\ q.exit.outcome = "storage_error"
        IN /\ q.route \in {"/", "/health", "/ingest-all"} =>
                resp.json /\ "status" \in DOMAIN resp.body
           /\ (q.route = "/ingest" /\ ~storage_failed) =>
                resp.json /\ "status" \in DOMAIN resp.body
           /\ (q.route = "/ingest" /\ storage_failed) => ~resp.json
           /\ q.route \in {"/dns-test", "/test-connectivity"} =>
                resp.json /\ "status" \notin DOMAIN resp.body

\* /test-connectivity has answered: its per-API entries carry a status, its
\* body has none
C7_Witness ==
    \E r \in Reqs :
      /\ req[r].pc = "done"
      /\ req[r].route = "/test-connectivity"
      /\ Response(req[r]).json
      /\ Response(req[r]).body.connectivity_test["httpbin"].status = "success"
      /\ "status" \notin DOMAIN Response(req[r]).body

\* C8: in a 200 response of /ingest/<name>, records_ingested is the number
\* of elements when the decoded body is an array and 1 for every other body.
C8_RecordsIngested ==
    \A r \in Reqs :
      IngestSucceeded(r) =>
        LET resp == Response(req[r])
            data == req[r].exit.data
        IN /\ resp.code = 200
           /\ data.type = "list" => resp.body.records_ingested = data.len
           /\ data.type # "list" => resp.body.records_ingested = 1

\* an empty array was counted 0 and a two-member object was counted 1
C8_Witness ==
    /\ \E r \in Reqs :
         /\ IngestSucceeded(r)
         /\ req[r].exit.data = [type |-> "list", len |-> 0]
         /\ Response(req[r]).body.records_ingested = 0
    /\ \E r \in Reqs :
         /\ IngestSucceeded(r)
         /\ req[r].exit.data = [type |-> "dict", len |-> 2]
         /\ Response(req[r]).body.records_ingested = 1

\* C9: the object key of a successful ingestion reads
\* api_name=<name>/year=<Y>/month=<MM>/day=<DD>/data_<YYYYMMDD_HHMMSS_mmm>.json
\* where Y, MM, DD denote the date of the one instant read after the fetch,
\* MM and DD have two digits, and the file name repeats that date.
C9_KeyForm ==
    \A r \in Reqs :
      IngestSucceeded(r) =>
        LET f == Response(req[r]).body.file
            t == Instants[req[r].exit.t]
            year  == Between(f, "/year=", "/month=")
            month == Between(f, "/month=", "/day=")
            day   == Between(f, "/day=", "/data_")
            stamp == Between(f, "/data_", ".json")
        IN /\ f = <<"api_name=", req[r].api_name, "/year=">> \o year
                    \o <<"/month=">> \o month \o <<"/day=">> \o day
                    \o <<"/data_">> \o stamp \o <<".json">>
           /\ \A k \in DOMAIN year : IsDigit(year[k])
           /\ ParseDigits(year) = t.year
           /\ Len(month) = 2
           /\ \A k \in DOMAIN month : IsDigit(month[k])
           /\ ParseDigits(month) = t.month
           /\ Len(day) = 2
           /\ \A k \in DOMAIN day : IsDigit(day[k])
           /\ ParseDigits(day) = t.day
           /\ Len(stamp) = 19
           /\ SubSeq(stamp, 1, 8) = year \o month \o day
           /\ stamp[9] = "_"
           /\ ParseDigits(SubSeq(stamp, 10, 11)) = t.hour
           /\ ParseDigits(SubSeq(stamp, 12, 13)) = t.minute
           /\ ParseDigits(SubSeq(stamp, 14, 15)) = t.second
           /\ stamp[16] = "_"
           /\ ParseDigits(SubSeq(stamp, 17, 19)) = t.microsecond \div 1000
           /\ \E o \in store : KeyOf(o) = f

\* ingestions on both sides of the change of year: a one-digit month and
\* day, and a two-digit month and day
C9_Witness ==
    /\ \E r \in Reqs :
         IngestSucceeded(r) /\ Instants[req[r].exit.t].month = 1
    /\ \E r \in Reqs :
         IngestSucceeded(r) /\ Instants[req[r].exit.t].month = 12

====
